---- MODULE Spec2Model ----
(***************************************************************************)
(* Model of the chat application's session/authentication and              *)
(* conversation-ownership layer: the sign-up and sign-in route handlers,   *)
(* token verification, the conversation / message / dashboard route        *)
(* handlers, the chat component with its WebSocket to the agent service   *)
(* and its conversation list, and the SearchService.                       *)
(*                                                                         *)
(* Strings whose characters matter (emails, passwords) are sequences of    *)
(* one-character strings.  Time is a counter of ticks; one tick is the     *)
(* lifetime of a session token.                                            *)
(***************************************************************************)
EXTENDS Integers, Sequences, FiniteSets, TLC

VARIABLES
  users,     \* the User collection: a set of documents
  convs,     \* the Conversation collection: a set of documents
  msgs,      \* the Message collection: a sequence of documents, in insertion order
  clock,     \* Date.now(), in ticks
  signups,   \* the sign-up requests in flight: process -> position and request body
  resp,      \* the last response sent, with the request it answers
  pager,     \* a client walking the pages of one conversation
  env,       \* process.env of the server
  appends,   \* the POST /api/messages requests served step by step: process -> position
  connectionStatus,    \* the chat component's state: status of the realtime bridge
  wsConnection,        \* the socket handle it holds, or NoSocket
  currentMessage,      \* the text typed into the input
  conversations,       \* the in-memory conversation list
  activeConversation,  \* the id of the conversation shown, or NoConversation
  sending,   \* the sendMessage call in flight
  sockets,   \* the WebSockets the browser keeps for the component
  timers,    \* the pending setTimeout(connectWebSocket, ...) calls: their delays
  sent,      \* the frames sent to the agent service, in order
  attempts,  \* the calls of connectWebSocket so far, modulo AttemptsModulus
  mounted,   \* whether the chat component is mounted
  detached,  \* the sockets and timers that components unmounted since have left
  assistantSaves,  \* the saveMessageToDB calls of handleWebSocketResponse
  cache,        \* SearchService: cache key -> results
  rateLimiter,  \* SearchService: requests counted and resetTime
  calls,        \* the searchGoogle calls in flight: process -> position
  issued        \* the number of search requests fetched before resetTime

client ==
  <<connectionStatus, wsConnection, currentMessage, conversations,
    activeConversation, sending, sockets, timers, sent, attempts, mounted,
    detached, assistantSaves>>

searchService == <<cache, rateLimiter, calls, issued>>

vars ==
  <<users, convs, msgs, clock, signups, resp, pager, env, appends, client,
    searchService>>

----------------------------------------------------------------------------
(* Bounds of the model *)

MaxUsers == 2
MaxTime == 1
MaxConvs == 1
MaxMsgs == 1
MaxPageMsgs == 3
MaxLimit == 2
MaxSent == 2
MaxAppends == 2
MaxTemp == 1
MaxDetached == 1
MaxOverrun == 2
AttemptsModulus == 2

(* Program constants *)

\* expiresIn: "1d" / maxAge: 60 * 60 * 24, in ticks of one day
TokenTTL == 1
\* password.length < 8
MinPasswordLength == 8
\* Number(searchParams.get("limit") || 50)
DefaultLimit == 50
\* resetTime: Date.now() + 86400000, in ticks of one day
ResetTicks == 1
\* this.rateLimiter.requests >= 100
RateLimit == 100

----------------------------------------------------------------------------
(* Strings *)

IsSpace(c) == c = " "

LowerChar(c) == IF c = "A" THEN "a" ELSE IF c = "Z" THEN "z" ELSE c

\* String.prototype.toLowerCase
ToLowerCase(s) == [i \in 1..Len(s) |-> LowerChar(s[i])]

\* String.prototype.trim
RECURSIVE TrimStart(_)
TrimStart(s) == IF s # <<>> /\ IsSpace(Head(s)) THEN TrimStart(Tail(s)) ELSE s

RECURSIVE TrimEnd(_)
TrimEnd(s) ==
  IF s # <<>> /\ IsSpace(s[Len(s)]) THEN TrimEnd(SubSeq(s, 1, Len(s) - 1)) ELSE s

Trim(s) == TrimEnd(TrimStart(s))

\* /\S+@\S+\.\S+/.test(email): unanchored, so it looks for a matching substring
EmailRegexTest(s) ==
  \E i, j \in 1..Len(s) :
    /\ s[i] = "@"
    /\ i > 1 /\ ~IsSpace(s[i - 1])
    /\ j > i + 1 /\ s[j] = "."
    /\ \A k \in (i + 1)..(j - 1) : ~IsSpace(s[k])
    /\ j < Len(s) /\ ~IsSpace(s[j + 1])

----------------------------------------------------------------------------
(* Request inputs *)

EmailPlain == <<"a", "@", "b", ".", "c">>
EmailUpper == <<"A", "@", "b", ".", "c">>
EmailPadded == <<" ", "a", "@", "b", ".", "c">>
EmailNoDot == <<"a", "@", "b">>
EmailBlank == <<" ">>
EmailMissing == <<>>

Emails == {EmailPlain, EmailUpper, EmailPadded, EmailNoDot, EmailBlank, EmailMissing}

PwGood == <<"p", "a", "s", "s", "w", "o", "r", "d">>
PwOther == <<"p", "a", "s", "s", "w", "o", "r", "D">>
PwShort == <<"p", "a", "s", "s", "w", "o", "r">>
PwMissing == <<>>

\* the passwords tried at sign-up and at sign-in
SignUpPasswords == {PwGood, PwShort, PwMissing}
SignInPasswords == {PwGood, PwOther, PwMissing}

FullNames == {"Ann", ""}

Procs == {"p1", "p2"}

----------------------------------------------------------------------------
(* bcrypt and jsonwebtoken *)

Salts == {"s1"}

\* bcrypt.hash(password, salt)
BcryptHash(password, salt) == [salt |-> salt, digest |-> password]

\* bcrypt.compare(password, hash)
BcryptCompare(password, hash) == hash = BcryptHash(password, hash.salt)

NoCookie == [id |-> 0, username |-> "", email |-> <<>>, exp |-> 0, sig |-> "none"]

\* jwt.sign(tokenPayload, process.env.JWT_SECRET, { expiresIn: "1d" })
JwtSign(id, username, email, now) ==
  [id |-> id, username |-> username, email |-> email, exp |-> now + TokenTTL,
   sig |-> "valid"]

NoIdentity == [id |-> 0, username |-> "", email |-> <<>>]

\* process.env with and without JWT_SECRET
Configured == [JWT_SECRET |-> "secret"]
NoSecret == [JWT_SECRET |-> ""]

\* jwt.verify throws without a secret, on a bad signature and on an expired token
JwtVerifyThrows(cookie, now) ==
  env.JWT_SECRET = "" \/ cookie.sig # "valid" \/ now >= cookie.exp

\* an exception that leaves a function instead of a value
Raised == [id |-> -1, username |-> "", email |-> <<>>]

GetUserFromTokenNoExpiry(cookie, now) ==
  IF cookie.sig = "none" THEN NoIdentity
  ELSE IF env.JWT_SECRET = "" \/ cookie.sig # "valid" THEN NoIdentity
  ELSE [id |-> cookie.id, username |-> cookie.username, email |-> cookie.email]

\* getUserFromToken: null for a missing cookie; jwt.verify throws on a bad
\* signature or an expired token and the catch returns null
GetUserFromToken(cookie, now) ==
  IF cookie.sig = "none" THEN NoIdentity
  ELSE IF JwtVerifyThrows(cookie, now) THEN NoIdentity
  ELSE [id |-> cookie.id, username |-> cookie.username, email |-> cookie.email]

GetDataFromTokenUncaught(cookie, now) ==
  IF cookie.sig = "none" THEN NoIdentity
  ELSE IF JwtVerifyThrows(cookie, now) THEN Raised
  ELSE [id |-> cookie.id, username |-> cookie.username, email |-> cookie.email]

\* getDataFromToken of the /api/auth/me route: the same, in its own try/catch
GetDataFromToken(cookie, now) ==
  IF cookie.sig = "none" THEN NoIdentity
  ELSE IF JwtVerifyThrows(cookie, now) THEN NoIdentity
  ELSE [id |-> cookie.id, username |-> cookie.username, email |-> cookie.email]

----------------------------------------------------------------------------
(* The User collection *)

\* User.findOne({ email })
FindUsersByEmail(store, email) == {u \in store : u.email = email}

\* the documents that collide with a new one on the unique index of UserSchema.email
UniqueIndexIgnored(store, email) == {}

UniqueIndexConflicts(store, email) == {u \in store : u.email = email}

NextUserId(store) == Cardinality(store) + 1

IdleSignup == [pc |-> "idle", fullName |-> "", email |-> <<>>, password |-> <<>>]

NoResp == [h |-> "none", status |-> 0]

\* the chat component before it is mounted: the initial values of its state
NoSocket == 0
NoConversation == 0
IdleSend == [pc |-> "idle"]

\* no socket and no timer is left behind
NoDetached == [sockets |-> {}, timers |-> <<>>]

ClientUnmounted ==
  /\ connectionStatus = "disconnected"
  /\ wsConnection = NoSocket
  /\ currentMessage = <<>>
  /\ conversations = <<>>
  /\ activeConversation = NoConversation
  /\ sending = IdleSend
  /\ sockets = {}
  /\ timers = <<>>
  /\ sent = <<>>
  /\ attempts = 0
  /\ mounted = FALSE
  /\ detached = NoDetached
  /\ assistantSaves = <<>>

\* no POST /api/messages is being served step by step
IdleAppend == [pc |-> "idle"]
NoAppends == [p \in Procs |-> IdleAppend]

IdleCall == [pc |-> "idle"]

\* the SearchService as its constructor leaves it, and no call made
SearchConstructed ==
  /\ cache = <<>>
  /\ rateLimiter = [requests |-> 0, resetTime |-> clock + ResetTicks]
  /\ calls = [p \in Procs |-> IdleCall]
  /\ issued = 0


----------------------------------------------------------------------------
(* Responses *)

AuthResponse(h, req, status, message, user, cookie) ==
  [h |-> h, req |-> req, status |-> status, message |-> message, user |-> user,
   cookie |-> cookie]

UserSummary(u) == [id |-> u.id, username |-> u.fullName, email |-> u.email]

\* The client reads the response; the next request is looked at only then, so
\* that resp always holds the response of the latest request.
ResponseReceived ==
  /\ resp # NoResp
  /\ resp' = NoResp
  /\ UNCHANGED <<users, convs, msgs, clock, signups, pager, env, client, appends,
                 searchService>>

----------------------------------------------------------------------------
(* POST /api/users: sign-up.  The handler awaits the store twice: the findOne *)
(* that looks for an existing user and the create that writes the new one.    *)

PasswordTooShortOffByOne(password) == Len(password) < MinPasswordLength - 1

\* password.length < 8
PasswordTooShort(password) == Len(password) < MinPasswordLength

SignUpRequest(fullName, email, password) ==
  [fullName |-> fullName, email |-> email, password |-> password]

\* validation and the existence check, up to the await of bcrypt
SignUpStart(p, fullName, email, password) ==
  LET req == SignUpRequest(fullName, email, password)
      reject(status, message) ==
        /\ resp' = AuthResponse("signup", req, status, message, NoIdentity, NoCookie)
        /\ UNCHANGED signups
  IN  /\ resp = NoResp
      /\ signups[p].pc = "idle"
      /\ Cardinality(users) < MaxUsers
      /\ IF fullName = "" \/ email = <<>> \/ password = <<>>
           THEN reject(400, "All fields are required")
         ELSE IF ~EmailRegexTest(email)
           THEN reject(400, "Invalid email format")
         ELSE IF PasswordTooShort(password)
           THEN reject(400, "Password must be at least 8 characters long")
         ELSE IF FindUsersByEmail(users, ToLowerCase(email)) # {}
           THEN reject(409, "User with this email already exists")
         ELSE /\ signups' = [signups EXCEPT ![p] =
                   [pc |-> "checked", fullName |-> fullName, email |-> email,
                    password |-> password]]
              /\ UNCHANGED resp
      /\ UNCHANGED <<users, convs, msgs, clock, pager, env, client, appends, searchService>>

\* the hash, User.create, the token and the response
SignUpCreate(p) ==
  LET r == signups[p]
      req == SignUpRequest(r.fullName, r.email, r.password)
      email == ToLowerCase(r.email)
  IN  /\ resp = NoResp
      /\ r.pc = "checked"
      /\ signups' = [signups EXCEPT ![p] = IdleSignup]
      /\ IF UniqueIndexConflicts(users, email) # {}
           THEN \* duplicate key error, caught by the handler's catch
                /\ resp' = AuthResponse("signup", req, 500, "Internal server error",
                                        NoIdentity, NoCookie)
                /\ UNCHANGED users
           ELSE \E salt \in Salts :
                  LET newUser == [id |-> NextUserId(users), fullName |-> r.fullName,
                                  email |-> email,
                                  password |-> BcryptHash(r.password, salt),
                                  createdAt |-> clock]
                  IN  /\ users' = users \cup {newUser}
                      /\ resp' =
                           IF env.JWT_SECRET = ""
                             THEN \* jwt.sign throws, caught by the handler's catch
                                  AuthResponse("signup", req, 500,
                                    "Internal server error", NoIdentity, NoCookie)
                             ELSE AuthResponse("signup", req, 201,
                                    "User created successfully", UserSummary(newUser),
                                    JwtSign(newUser.id, newUser.fullName,
                                            newUser.email, clock))
      /\ UNCHANGED <<convs, msgs, clock, pager, env, client, appends, searchService>>

----------------------------------------------------------------------------
(* POST /api/auth/signin *)

SignInRequest(email, password) == [email |-> email, password |-> password]

\* the responses the handler can give (findOne returns any one matching document)
SignInResponses(store, rawEmail, password, now) ==
  LET req == SignInRequest(rawEmail, password)
      email == ToLowerCase(Trim(rawEmail))
      found == FindUsersByEmail(store, email)
  IN  IF email = <<>> \/ password = <<>>
        THEN {AuthResponse("signin", req, 400, "Email and password are required",
                           NoIdentity, NoCookie)}
      ELSE IF found = {}
        THEN {AuthResponse("signin", req, 401, "Invalid credentials", NoIdentity,
                           NoCookie)}
      ELSE {IF ~BcryptCompare(password, u.password)
              THEN AuthResponse("signin", req, 401, "Invalid credentials", NoIdentity,
                                NoCookie)
            ELSE IF env.JWT_SECRET = ""
              THEN AuthResponse("signin", req, 500,
                     "JWT_SECRET is not defined in environment variables.",
                     NoIdentity, NoCookie)
              ELSE AuthResponse("signin", req, 200, "Sign-in successful",
                                UserSummary(u),
                                JwtSign(u.id, u.fullName, u.email, now)) : u \in found}

SignIn(email, password) ==
  /\ resp = NoResp
  /\ resp' \in SignInResponses(users, email, password, clock)
  /\ UNCHANGED <<users, convs, msgs, clock, signups, pager, env, client, appends,
                 searchService>>

----------------------------------------------------------------------------
(* POST /api/auth: the login handler *)

LoginResponses(store, rawEmail, password, now) ==
  LET req == SignInRequest(rawEmail, password)
      found == FindUsersByEmail(store, ToLowerCase(rawEmail))
  IN  IF rawEmail = <<>> \/ password = <<>>
        THEN {AuthResponse("login", req, 400, "Email and password are required",
                           NoIdentity, NoCookie)}
      ELSE IF found = {}
        THEN {AuthResponse("login", req, 404, "User not found", NoIdentity, NoCookie)}
      ELSE {IF ~BcryptCompare(password, u.password)
              THEN AuthResponse("login", req, 401, "Invalid password", NoIdentity,
                                NoCookie)
              ELSE AuthResponse("login", req, 200, "Login successful", UserSummary(u),
                                NoCookie) : u \in found}

Login(email, password) ==
  /\ resp = NoResp
  /\ resp' \in LoginResponses(users, email, password, clock)
  /\ UNCHANGED <<users, convs, msgs, clock, signups, pager, env, client, appends,
                 searchService>>

----------------------------------------------------------------------------
(* GET /api/auth/me *)

MeResponse(req, status, error, data) ==
  [h |-> "me", req |-> req, status |-> status, error |-> error, data |-> data]

Me(cookie) ==
  LET req == [cookie |-> cookie, at |-> clock]
      userData == GetDataFromToken(cookie, clock)
  IN  /\ resp = NoResp
      /\ resp' = IF userData = Raised
                   THEN MeResponse(req, 500, "error.message", NoIdentity)
                 ELSE IF userData = NoIdentity
                   THEN MeResponse(req, 401, "Not authenticated", NoIdentity)
                   ELSE MeResponse(req, 200, "", userData)
      /\ UNCHANGED <<users, convs, msgs, clock, signups, pager, env, client, appends,
                 searchService>>

----------------------------------------------------------------------------
(* The authentication specification: concurrent sign-ups, sign-ins, logins *)

IdlePager == [pc |-> "idle", limit |-> 0, cursor |-> -1, pages |-> <<>>, conv |-> 0]

InitAuth ==
  /\ users = {}
  /\ convs = {}
  /\ msgs = <<>>
  /\ clock = 0
  /\ signups = [p \in Procs |-> IdleSignup]
  /\ resp = NoResp
  /\ pager = IdlePager
  /\ env = Configured
  /\ appends = NoAppends
  /\ SearchConstructed
  /\ ClientUnmounted

NextAuth ==
  \/ \E p \in Procs, f \in FullNames, e \in Emails, pw \in SignUpPasswords :
       SignUpStart(p, f, e, pw)
  \/ \E p \in Procs : SignUpCreate(p)
  \/ \E e \in Emails, pw \in SignInPasswords : SignIn(e, pw)
  \/ \E e \in Emails, pw \in SignInPasswords : Login(e, pw)
  \/ ResponseReceived

SpecAuth == InitAuth /\ [][NextAuth]_vars

----------------------------------------------------------------------------
(* Requests to the authenticated handlers *)

\* the users of the conversation specification, as two sign-ups leave them
StoredUsers ==
  { [id |-> 1, fullName |-> "Ann", email |-> EmailPlain,
     password |-> BcryptHash(PwGood, "s1"), createdAt |-> 0],
    [id |-> 2, fullName |-> "Ann", email |-> EmailPadded,
     password |-> BcryptHash(PwGood, "s1"), createdAt |-> 0] }

\* the cookies a request can carry at time now: none, a token issued to a user
\* at time 0 or just now, or a token whose payload was changed after signing
IssuedTokens(now) ==
  {JwtSign(u.id, u.fullName, u.email, t) : u \in users, t \in {0, now}}

TamperedTokens(now) ==
  {[JwtSign(uv[1].id, uv[1].fullName, uv[1].email, now)
      EXCEPT !.id = uv[2].id, !.sig = "bad"] :
     uv \in {p \in users \X users : p[1] # p[2]}}

Cookies(now) == {NoCookie} \cup IssuedTokens(now) \cup TamperedTokens(now)

MissingId == 0
MalformedId == -1
ConvIdInputs == {MissingId, MalformedId} \cup (1..MaxConvs)

Roles == {"user", "assistant", "system"}
\* conversationId, role and content of the append requests
AppendInputs ==
  {<<id, r, <<"H", "i">>>> : id \in 1..MaxConvs, r \in {"user", "assistant"}}
    \cup {<<MissingId, "user", <<"H", "i">>>>, <<MalformedId, "user", <<"H", "i">>>>,
          <<1, "bot", <<"H", "i">>>>, <<1, "", <<"H", "i">>>>, <<1, "user", <<>>>>}

NoLimit == -1
NoCursor == -1
LimitInputs == {NoLimit} \cup (1..MaxLimit)
CursorInputs == {NoCursor} \cup (0..MaxTime)

FirstMessages == {<<"H", "i">>}

DefaultTitle ==
  <<"N", "e", "w", " ", "C", "o", "n", "v", "e", "r", "s", "a", "t", "i", "o", "n">>

StoreRequest(cookie, conversationId, role, content, limit, cursor, text) ==
  [cookie |-> cookie, conversationId |-> conversationId, role |-> role,
   content |-> content, limit |-> limit, cursor |-> cursor, text |-> text,
   at |-> clock]

StoreResponse(h, req, status, error, data, nextCursor) ==
  [h |-> h, req |-> req, status |-> status, error |-> error, data |-> data,
   nextCursor |-> nextCursor]

Unauthorized(h, req) == StoreResponse(h, req, 401, "Unauthorized", <<>>, NoCursor)

\* the sequences that list the documents of S by key (a function on S),
\* descending; documents with equal keys come in any order
RECURSIVE SortedDescending(_, _)
SortedDescending(S, key) ==
  IF S = {} THEN {<<>>}
  ELSE UNION {{<<c>> \o q : q \in SortedDescending(S \ {c}, key)} :
                c \in {d \in S : \A e \in S : key[d] >= key[e]}}

Reverse(q) == [i \in 1..Len(q) |-> q[Len(q) + 1 - i]]

\* cursor.limit(n); limit(0) is no limit
Limit(q, n) == IF n = 0 \/ n >= Len(q) THEN q ELSE SubSeq(q, 1, n)

----------------------------------------------------------------------------
(* POST and GET /api/conversations *)

\* cleaned.length <= 30, cleaned.substring(0, 30)
TitleCap == 30

\* generateTitle
GenerateTitle(text) ==
  IF text = <<>> THEN DefaultTitle
  ELSE LET cleaned == Trim(text)
       IN  IF Len(cleaned) <= TitleCap THEN cleaned
           ELSE SubSeq(cleaned, 1, TitleCap) \o <<".", ".", ".">>

\* body.title?.trim() || "New Conversation"
TitleOrDefault(title) == IF Trim(title) = <<>> THEN DefaultTitle ELSE Trim(title)

\* the documents created since the clock started; those stored before it
\* carry earlier timestamps
ConversationsCreated == Cardinality({c \in convs : c.createdAt >= 0})
MessagesCreated == Cardinality({i \in 1..Len(msgs) : msgs[i].createdAt >= 0})

NewConversation(owner, title) ==
  [id |-> Cardinality(convs) + 1, user |-> owner, title |-> title,
   lastMessageAt |-> clock, createdAt |-> clock, updatedAt |-> clock]

\* POST /api/conversations (title from the first message)
CreateConversation(cookie, firstMessage) ==
  LET req == StoreRequest(cookie, MissingId, "", <<>>, NoLimit, NoCursor, firstMessage)
      user == GetUserFromToken(cookie, clock)
  IN  /\ resp = NoResp
      /\ IF user = NoIdentity
           THEN /\ resp' = Unauthorized("createConversation", req)
                /\ UNCHANGED convs
           ELSE LET convo == NewConversation(user.id, GenerateTitle(firstMessage))
                IN  /\ ConversationsCreated < MaxConvs
                    /\ convs' = convs \cup {convo}
                    /\ resp' = StoreResponse("createConversation", req, 200, "",
                                             <<convo>>, NoCursor)
      /\ UNCHANGED <<users, msgs, clock, signups, pager, env, client, appends, searchService>>

\* POST of the conversation handler with an explicit title
CreateTitledConversation(cookie, title) ==
  LET req == StoreRequest(cookie, MissingId, "", <<>>, NoLimit, NoCursor, title)
      user == GetUserFromToken(cookie, clock)
  IN  /\ resp = NoResp
      /\ IF user = NoIdentity
           THEN /\ resp' = Unauthorized("createTitledConversation", req)
                /\ UNCHANGED convs
           ELSE LET convo == NewConversation(user.id, TitleOrDefault(title))
                IN  /\ ConversationsCreated < MaxConvs
                    /\ convs' = convs \cup {convo}
                    /\ resp' = StoreResponse("createTitledConversation", req, 200, "",
                                             <<convo>>, NoCursor)
      /\ UNCHANGED <<users, msgs, clock, signups, pager, env, client, appends, searchService>>

UpdatedAtAsCreatedAt(S) == [c \in S |-> c.createdAt]

\* the sort key { updatedAt: -1 }
UpdatedAt(S) == [c \in S |-> c.updatedAt]

\* GET /api/conversations
ListConversations(cookie) ==
  LET req == StoreRequest(cookie, MissingId, "", <<>>, NoLimit, NoCursor, <<>>)
      user == GetUserFromToken(cookie, clock)
  IN  /\ resp = NoResp
      /\ IF user = NoIdentity
           THEN resp' = Unauthorized("listConversations", req)
           ELSE \E list \in SortedDescending({c \in convs : c.user = user.id},
                             UpdatedAt({c \in convs : c.user = user.id})) :
                  resp' = StoreResponse("listConversations", req, 200, "", list,
                                        NoCursor)
      /\ UNCHANGED <<users, convs, msgs, clock, signups, pager, env, client, appends,
                 searchService>>

----------------------------------------------------------------------------
(* POST and GET /api/messages *)

FindConversationOfAnyOwner(conversationId, userId) ==
  {c \in convs : c.id = conversationId}

\* Conversation.findOne({ _id: conversationId, user: new Types.ObjectId(user.id) })
FindOwnedConversation(conversationId, userId) ==
  {c \in convs : c.id = conversationId /\ c.user = userId}

NoSender == 0

TouchConversationNever(convo, now) == convo

\* convo.lastMessageAt = new Date(); await convo.save(), which also stamps
\* updatedAt (timestamps: true)
TouchConversation(convo, now) ==
  [convo EXCEPT !.lastMessageAt = now, !.updatedAt = now]

\* POST /api/messages
AppendMessage(cookie, conversationId, role, content) ==
  LET req == StoreRequest(cookie, conversationId, role, content, NoLimit, NoCursor,
                          <<>>)
      user == GetUserFromToken(cookie, clock)
      owned == FindOwnedConversation(conversationId, user.id)
      reject(status, error) ==
        /\ resp' = StoreResponse("postMessage", req, status, error, <<>>, NoCursor)
        /\ UNCHANGED <<convs, msgs>>
  IN  /\ resp = NoResp
      /\ IF user = NoIdentity
           THEN reject(401, "Unauthorized")
         ELSE IF conversationId = MissingId \/ role = "" \/ content = <<>>
           THEN reject(400, "conversationId, role, content required")
         ELSE IF conversationId = MalformedId
           THEN reject(500, "Cast to ObjectId failed")
         ELSE IF owned = {}
           THEN reject(403, "Conversation not found or unauthorized")
         ELSE IF role \notin Roles
           THEN reject(500, "Message validation failed")
         ELSE \E convo \in owned :
                LET msg == [id |-> Len(msgs) + 1, conversation |-> conversationId,
                            role |-> role, content |-> content,
                            sender |-> IF role = "user" THEN user.id ELSE NoSender,
                            createdAt |-> clock]
                IN  /\ MessagesCreated < MaxMsgs
                    /\ msgs' = Append(msgs, msg)
                    /\ convs' = (convs \ {convo}) \cup {TouchConversation(convo, clock)}
                    /\ resp' = StoreResponse("postMessage", req, 200, "", <<msg>>,
                                             NoCursor)
      /\ UNCHANGED <<users, clock, signups, pager, env, client, appends, searchService>>

\* the sort key { createdAt: -1 }
CreatedAt(S) == [m \in S |-> m.createdAt]

\* Message.find(query).sort({ createdAt: -1 }).limit(limit)
FindMessages(store, conversationId, cursor, limit) ==
  LET matching ==
        {store[i] : i \in {k \in 1..Len(store) :
           /\ store[k].conversation = conversationId
           /\ (cursor # NoCursor => store[k].createdAt < cursor)}}
  IN  {Limit(q, limit) : q \in SortedDescending(matching, CreatedAt(matching))}

PageResponseCursorOfNewest(req, messages) ==
  StoreResponse("getMessages", req, 200, "", Reverse(messages),
                IF Len(messages) # 0 THEN messages[1].createdAt ELSE NoCursor)

\* the 200 response: data: messages.reverse() reverses in place, so messages[0]
\* is the oldest message of the page when nextCursor is read
PageResponse(req, messages) ==
  LET reversed == Reverse(messages)
  IN  StoreResponse("getMessages", req, 200, "", reversed,
                    IF Len(reversed) # 0 THEN reversed[1].createdAt ELSE NoCursor)

\* the responses of GET /api/messages
GetMessagesResponses(req) ==
  LET user == GetUserFromToken(req.cookie, req.at)
      limit == IF req.limit = NoLimit THEN DefaultLimit ELSE req.limit
      reject(status, error) ==
        {StoreResponse("getMessages", req, status, error, <<>>, NoCursor)}
  IN  IF user = NoIdentity
        THEN reject(401, "Unauthorized")
      ELSE IF req.conversationId = MissingId
        THEN reject(400, "conversationId required")
      ELSE IF req.conversationId = MalformedId
        THEN reject(500, "Cast to ObjectId failed")
      ELSE IF FindOwnedConversation(req.conversationId, user.id) = {}
        THEN reject(403, "Conversation not found or unauthorized")
      ELSE {PageResponse(req, messages) :
              messages \in FindMessages(msgs, req.conversationId, req.cursor, limit)}

GetMessages(cookie, conversationId, limit, cursor) ==
  /\ resp = NoResp
  /\ resp' \in GetMessagesResponses(
                 StoreRequest(cookie, conversationId, "", <<>>, limit, cursor, <<>>))
  /\ UNCHANGED <<users, convs, msgs, clock, signups, pager, env, client, appends,
                 searchService>>

----------------------------------------------------------------------------
(* GET /api/dashboard *)

\* .limit(5)
RecentChatsLimit == 5
\* Date.now() - 7 * 24 * 60 * 60 * 1000, in ticks of one day
WindowTicks == 7
\* / 60000: the minutes in one tick of one day
MinutesPerTick == 1440

\* $dayOfWeek: 1 = Sunday .. 7 = Saturday; tick 0 falls on a Sunday
DayOfWeek(t) == (t % 7) + 1

MongoToIndexSundayFirst(d) == d - 1

\* mongoToIndex
MongoToIndex(d) == IF d = 1 THEN 6 ELSE d - 2

DayNames == <<"Mon", "Tue", "Wed", "Thu", "Fri", "Sat", "Sun">>

\* the sort key { lastMessageAt: -1 }
LastMessageAt(S) == [c \in S |-> c.lastMessageAt]

\* Math.round of a / b, for a >= 0 and b > 0
RoundedQuotient(a, b) == (2 * a + b) \div (2 * b)

SetMax(S) == CHOOSE x \in S : \A y \in S : y <= x
SetMin(S) == CHOOSE x \in S : \A y \in S : x <= y

AllConversations(userId) == convs

\* Conversation.find({ user: userId })
OwnConversations(userId) == {c \in convs : c.user = userId}

\* the stats object, with recentChats in one of the orders the sort allows
DashboardStats(userId, recentChats, now) ==
  LET mine == OwnConversations(userId)
      ids == {c.id : c \in mine}
      mineMsgs == {i \in 1..Len(msgs) : msgs[i].conversation \in ids}
      stamps == {msgs[i].createdAt : i \in mineMsgs}
      weekly == {c \in mine : c.createdAt >= now - WindowTicks}
      value(index) ==
        Cardinality({c \in weekly : MongoToIndex(DayOfWeek(c.createdAt)) = index})
  IN  [totalConversations |-> Cardinality(mine),
       totalMessages |-> Cardinality(mineMsgs),
       avgResponseTime |->
         IF Cardinality(mineMsgs) > 1
           THEN RoundedQuotient((SetMax(stamps) - SetMin(stamps)) * MinutesPerTick,
                                Cardinality(mineMsgs) - 1)
           ELSE 0,
       weeklyData |-> [i \in 1..7 |-> [day |-> DayNames[i], value |-> value(i - 1)]],
       recentChats |-> recentChats]

\* the store operations of the handler, in the order it awaits them
DashboardOps ==
  <<"connectDB", "Conversation.find", "Message.countDocuments",
    "Conversation.find.sort.limit", "Conversation.aggregate", "Message.find">>

NoFault == ""
DashboardFaults == {NoFault} \cup {DashboardOps[i] : i \in 1..Len(DashboardOps)}

\* the key stats is absent from the body
NoStats == <<>>

DashboardResponse(req, status, success, message, stats) ==
  [h |-> "dashboard", req |-> req, status |-> status, success |-> success,
   error |-> message, data |-> stats, nextCursor |-> NoCursor]

DashboardFailureWithZeroStats(req) ==
  DashboardResponse(req, 500, FALSE, "",
    [totalConversations |-> 0, totalMessages |-> 0, avgResponseTime |-> 0,
     weeklyData |-> [i \in 1..7 |-> [day |-> DayNames[i], value |-> 0]],
     recentChats |-> <<>>])

\* the catch: NextResponse.json({ success: false }, { status: 500 })
DashboardFailure(req) == DashboardResponse(req, 500, FALSE, "", NoStats)

\* GET /api/dashboard when the store operation fault, if any, throws
DashboardWith(cookie, fault) ==
  LET req == StoreRequest(cookie, MissingId, "", <<>>, NoLimit, NoCursor, <<>>)
               @@ [fault |-> fault]
      user == GetUserFromToken(cookie, clock)
  IN  /\ resp = NoResp
      /\ IF fault = "connectDB"
           THEN resp' = DashboardFailure(req)
         ELSE IF user = NoIdentity
           THEN resp' = DashboardResponse(req, 401, FALSE, "Unauthorized", NoStats)
         ELSE IF fault # NoFault
           THEN resp' = DashboardFailure(req)
           ELSE \E recent \in SortedDescending(OwnConversations(user.id),
                               LastMessageAt(OwnConversations(user.id))) :
                  resp' = DashboardResponse(req, 200, TRUE, "",
                            DashboardStats(user.id, Limit(recent, RecentChatsLimit),
                                           clock))
      /\ UNCHANGED <<users, convs, msgs, clock, signups, pager, env, client, appends,
                 searchService>>

\* GET /api/dashboard when the store works
Dashboard(cookie) == DashboardWith(cookie, NoFault)

----------------------------------------------------------------------------
(* The conversation specification: two signed-up users, any requests *)

Tick ==
  /\ resp = NoResp
  /\ clock < MaxTime
  /\ clock' = clock + 1
  /\ UNCHANGED <<users, convs, msgs, signups, resp, pager, env, client, appends,
                 searchService>>

Init ==
  /\ users = StoredUsers
  /\ convs = {}
  /\ msgs = <<>>
  /\ clock = 0
  /\ signups = [p \in Procs |-> IdleSignup]
  /\ resp = NoResp
  /\ pager = IdlePager
  /\ env = Configured
  /\ appends = NoAppends
  /\ SearchConstructed
  /\ ClientUnmounted

Next ==
  \/ Tick
  \/ \E c \in Cookies(clock), t \in FirstMessages : CreateConversation(c, t)
  \/ \E c \in Cookies(clock), t \in FirstMessages : CreateTitledConversation(c, t)
  \/ \E c \in Cookies(clock) : ListConversations(c)
  \/ \E c \in Cookies(clock), in \in AppendInputs :
       AppendMessage(c, in[1], in[2], in[3])
  \/ \E c \in Cookies(clock), id \in ConvIdInputs :
       GetMessages(c, id, NoLimit, NoCursor)
  \/ \E c \in Cookies(clock) : Dashboard(c)
  \/ \E c \in Cookies(clock) : Me(c)
  \/ ResponseReceived

Spec == Init /\ [][Next]_vars

----------------------------------------------------------------------------
(* The history specification: the store already holds conversations and      *)
(* messages of both users, written on the days before the clock started.     *)

HistoryConversation(id, owner, created, active) ==
  [id |-> id, user |-> owner, title |-> DefaultTitle, lastMessageAt |-> active,
   createdAt |-> created, updatedAt |-> active]

\* six conversations of user 1 and one of user 2
StoredConversations ==
  { HistoryConversation(1, 1, -9, -1), HistoryConversation(2, 1, -7, -7),
    HistoryConversation(3, 1, -6, -6), HistoryConversation(4, 1, -5, -4),
    HistoryConversation(5, 1, -3, -3), HistoryConversation(6, 1, -2, -2),
    HistoryConversation(7, 2, -5, -2) }

HistoryMessage(id, conversationId, sender, created) ==
  [id |-> id, conversation |-> conversationId, role |-> "user", content |-> <<"H", "i">>,
   sender |-> sender, createdAt |-> created]

StoredMessages ==
  << HistoryMessage(1, 4, 1, -4), HistoryMessage(2, 7, 2, -2),
     HistoryMessage(3, 1, 1, -1) >>

\* no cookie, or the token a user got when signing in just now
FreshCookies(now) ==
  {NoCookie} \cup {JwtSign(u.id, u.fullName, u.email, now) : u \in users}

\* appends to the least recently active conversation of user 1, to the
\* conversation of user 2 and to the first conversation created since
HistoryAppendInputs ==
  { <<2, "user", <<"H", "i">>>>, <<7, "user", <<"H", "i">>>>,
    <<8, "assistant", <<"H", "i">>>> }

InitHistory ==
  /\ users = StoredUsers
  /\ convs = StoredConversations
  /\ msgs = StoredMessages
  /\ clock = 0
  /\ signups = [p \in Procs |-> IdleSignup]
  /\ resp = NoResp
  /\ pager = IdlePager
  /\ env = Configured
  /\ appends = NoAppends
  /\ SearchConstructed
  /\ ClientUnmounted

NextHistory ==
  \/ Tick
  \/ \E c \in FreshCookies(clock), t \in FirstMessages : CreateConversation(c, t)
  \/ \E c \in FreshCookies(clock) : ListConversations(c)
  \/ \E c \in FreshCookies(clock), in \in HistoryAppendInputs :
       AppendMessage(c, in[1], in[2], in[3])
  \/ \E c \in FreshCookies(clock) : Dashboard(c)
  \/ ResponseReceived

SpecHistory == InitHistory /\ [][NextHistory]_vars

----------------------------------------------------------------------------
(* The fault specification: the history, and a store whose operations may    *)
(* fail under the dashboard handler.                                         *)

NextFaults ==
  \/ Tick
  \/ \E c \in FreshCookies(clock), in \in HistoryAppendInputs :
       AppendMessage(c, in[1], in[2], in[3])
  \/ \E c \in Cookies(clock), f \in DashboardFaults : DashboardWith(c, f)
  \/ ResponseReceived

SpecFaults == InitHistory /\ [][NextFaults]_vars

----------------------------------------------------------------------------
(* The specification of a server started without JWT_SECRET: one user signed *)
(* up while the secret was still configured.                                 *)

InitNoSecret ==
  /\ users = {u \in StoredUsers : u.id = 1}
  /\ convs = {}
  /\ msgs = <<>>
  /\ clock = 0
  /\ signups = [p \in Procs |-> IdleSignup]
  /\ resp = NoResp
  /\ pager = IdlePager
  /\ env = NoSecret
  /\ appends = NoAppends
  /\ SearchConstructed
  /\ ClientUnmounted

NextNoSecret ==
  \/ Tick
  \/ \E p \in Procs, f \in FullNames, e \in Emails, pw \in SignUpPasswords :
       SignUpStart(p, f, e, pw)
  \/ \E p \in Procs : SignUpCreate(p)
  \/ \E e \in Emails, pw \in SignInPasswords : SignIn(e, pw)
  \/ \E e \in Emails, pw \in SignInPasswords : Login(e, pw)
  \/ \E c \in Cookies(clock) : Me(c)
  \/ \E c \in Cookies(clock) : ListConversations(c)
  \/ \E c \in Cookies(clock) : Dashboard(c)
  \/ ResponseReceived

SpecNoSecret == InitNoSecret /\ [][NextNoSecret]_vars

----------------------------------------------------------------------------
(* POST /api/messages served step by step: the handler gives way at each     *)
(* await, so the reads and writes of concurrent requests interleave.         *)

\* the handler up to the answer of Conversation.findOne
AppendFind(p, cookie, conversationId, role, content) ==
  LET req == StoreRequest(cookie, conversationId, role, content, NoLimit, NoCursor,
                          <<>>)
      user == GetUserFromToken(cookie, clock)
      owned == FindOwnedConversation(conversationId, user.id)
      reject(status) ==
        appends' = [appends EXCEPT ![p] =
                      [pc |-> "answered", req |-> req, status |-> status,
                       created |-> <<>>]]
  IN  /\ appends[p].pc = "idle"
      /\ IF user = NoIdentity THEN reject(401)
         ELSE IF conversationId = MissingId \/ role = "" \/ content = <<>>
           THEN reject(400)
         ELSE IF conversationId = MalformedId THEN reject(500)
         ELSE IF owned = {} THEN reject(403)
         ELSE \E convo \in owned :
                appends' = [appends EXCEPT ![p] =
                              [pc |-> "create", req |-> req, user |-> user.id,
                               convo |-> convo]]
      /\ UNCHANGED <<users, convs, msgs, clock, signups, resp, pager, env, client,
                     searchService>>

\* Message.create and, when it resolves, convo.lastMessageAt = new Date();
\* a rejected create is answered 500 by the catch
AppendCreate(p, fails) ==
  LET a == appends[p]
      msg == [id |-> Len(msgs) + 1, conversation |-> a.req.conversationId,
              role |-> a.req.role, content |-> a.req.content,
              sender |-> IF a.req.role = "user" THEN a.user ELSE NoSender,
              createdAt |-> clock]
  IN  /\ a.pc = "create"
      /\ IF fails \/ a.req.role \notin Roles
           THEN /\ appends' = [appends EXCEPT ![p] =
                                 [pc |-> "answered", req |-> a.req, status |-> 500,
                                  created |-> <<>>]]
                /\ UNCHANGED msgs
           ELSE /\ MessagesCreated < MaxAppends
                /\ msgs' = Append(msgs, msg)
                /\ appends' = [appends EXCEPT ![p] =
                                 [pc |-> "save", req |-> a.req, created |-> <<msg>>,
                                  convo |-> [a.convo EXCEPT !.lastMessageAt = clock]]]
      /\ UNCHANGED <<users, convs, clock, signups, resp, pager, env, client,
                     searchService>>

\* convo.save() reaches the store: it writes the lastMessageAt set before the
\* await over the stored document, and the handler answers 200; a rejected
\* save is answered 500 by the catch
AppendSave(p, fails) ==
  LET a == appends[p]
  IN  /\ a.pc = "save"
      /\ IF fails
           THEN /\ appends' = [appends EXCEPT ![p] =
                                 [pc |-> "answered", req |-> a.req, status |-> 500,
                                  created |-> a.created]]
                /\ UNCHANGED convs
           ELSE /\ convs' = {IF c.id = a.convo.id
                               THEN TouchConversation(c, a.convo.lastMessageAt)
                               ELSE c : c \in convs}
                /\ appends' = [appends EXCEPT ![p] =
                                 [pc |-> "answered", req |-> a.req, status |-> 200,
                                  created |-> a.created]]
      /\ UNCHANGED <<users, msgs, clock, signups, resp, pager, env, client,
                     searchService>>

\* the caller has the response
AppendAnswered(p) ==
  /\ appends[p].pc = "answered"
  /\ appends' = [appends EXCEPT ![p] = IdleAppend]
  /\ UNCHANGED <<users, convs, msgs, clock, signups, resp, pager, env, client,
                 searchService>>

\* one conversation of user 1, stored the day before the clock started
InitAppends ==
  /\ users = StoredUsers
  /\ convs = {HistoryConversation(1, 1, -1, -1)}
  /\ msgs = <<>>
  /\ clock = 0
  /\ signups = [p \in Procs |-> IdleSignup]
  /\ resp = NoResp
  /\ pager = IdlePager
  /\ env = Configured
  /\ appends = NoAppends
  /\ SearchConstructed
  /\ ClientUnmounted

\* conversationId, role and content of the concurrent append requests
ConcurrentAppendInputs ==
  { <<1, "user", <<"H", "i">>>>, <<1, "assistant", <<"H", "i">>>>,
    <<1, "bot", <<"H", "i">>>>, <<MissingId, "user", <<"H", "i">>>> }

\* the store works
NextAppends ==
  \/ Tick
  \/ \E p \in Procs, c \in FreshCookies(clock), in \in ConcurrentAppendInputs :
       AppendFind(p, c, in[1], in[2], in[3])
  \/ \E p \in Procs : AppendCreate(p, FALSE)
  \/ \E p \in Procs : AppendSave(p, FALSE)
  \/ \E p \in Procs : AppendAnswered(p)

SpecAppends == InitAppends /\ [][NextAppends]_vars

\* the store may reject a write
NextAppendFaults ==
  \/ Tick
  \/ \E p \in Procs, c \in FreshCookies(clock), in \in ConcurrentAppendInputs :
       AppendFind(p, c, in[1], in[2], in[3])
  \/ \E p \in Procs, fails \in BOOLEAN : AppendCreate(p, fails)
  \/ \E p \in Procs, fails \in BOOLEAN : AppendSave(p, fails)
  \/ \E p \in Procs : AppendAnswered(p)

SpecAppendFaults == InitAppends /\ [][NextAppendFaults]_vars

----------------------------------------------------------------------------
(* The title specification: both create-conversation handlers, called with   *)
(* no text, blank text, padded text and text at and past the title cap.      *)

Repeat(ch, n) == [i \in 1..n |-> ch]

TitleTexts ==
  {<<>>, <<" ">>, <<" ", "H", "i", " ">>, Repeat("x", TitleCap),
   Repeat("x", TitleCap + 1)}

NextTitles ==
  \/ Tick
  \/ \E c \in Cookies(clock), t \in TitleTexts : CreateConversation(c, t)
  \/ \E c \in Cookies(clock), t \in TitleTexts : CreateTitledConversation(c, t)
  \/ ResponseReceived

SpecTitles == Init /\ [][NextTitles]_vars

----------------------------------------------------------------------------
(* The chat component: its WebSocket to the agent service and sendMessage.   *)
(* The browser keeps the sockets; a socket whose error event was dispatched  *)
(* is failed, and its close event follows.                                   *)

\* setTimeout(connectWebSocket, 3000)
ReconnectDelay == 3000

\* every socket the browser holds
AllSockets == sockets \cup detached.sockets

NewSocketId ==
  CHOOSE n \in 1..(Cardinality(AllSockets) + 1) : \A s \in AllSockets : s.id # n

\* connectWebSocket, called while the timers in pending stay scheduled: the
\* constructor returns a connecting socket, or it throws and the catch sets
\* the status and schedules the next call
ConnectWebSocket(pending, throws) ==
  /\ attempts' = (attempts + 1) % AttemptsModulus
  /\ IF throws
       THEN /\ connectionStatus' = "error"
            /\ timers' = Append(pending, ReconnectDelay)
            /\ UNCHANGED sockets
       ELSE /\ sockets' = sockets \cup {[id |-> NewSocketId, state |-> "connecting"]}
            /\ timers' = pending
            /\ UNCHANGED connectionStatus

server == <<users, convs, msgs, clock, signups, resp, pager, env, appends>>

\* a reconnect timer comes due
ReconnectTimerFires(throws) ==
  /\ timers # <<>>
  /\ ConnectWebSocket(Tail(timers), throws)
  /\ UNCHANGED <<server, wsConnection, currentMessage, conversations,
                 activeConversation, sending, sent, mounted, detached,
                 assistantSaves, searchService>>

\* ws.onopen
SocketOpens(s) ==
  /\ s.state = "connecting"
  /\ sockets' = (sockets \ {s}) \cup {[s EXCEPT !.state = "open"]}
  /\ connectionStatus' = "connected"
  /\ wsConnection' = s.id
  /\ UNCHANGED <<server, currentMessage, conversations, activeConversation, sending,
                 timers, sent, attempts, mounted, detached, assistantSaves,
                 searchService>>

\* ws.onerror
SocketErrors(s) ==
  /\ s.state \in {"connecting", "open"}
  /\ sockets' = (sockets \ {s}) \cup {[s EXCEPT !.state = "failed"]}
  /\ connectionStatus' = "error"
  /\ UNCHANGED <<server, wsConnection, currentMessage, conversations,
                 activeConversation, sending, timers, sent, attempts,
                 mounted, detached, assistantSaves, searchService>>

OnCloseWithoutReconnect ==
  /\ connectionStatus' = "disconnected"
  /\ wsConnection' = NoSocket
  /\ timers' = timers

\* ws.onclose
OnClose ==
  /\ connectionStatus' = "disconnected"
  /\ wsConnection' = NoSocket
  /\ timers' = Append(timers, ReconnectDelay)

\* the close event of a socket the server closed or that failed
SocketCloses(s) ==
  /\ s.state \in {"open", "failed"}
  /\ sockets' = sockets \ {s}
  /\ OnClose
  /\ UNCHANGED <<server, currentMessage, conversations, activeConversation, sending,
                 sent, attempts, mounted, detached, assistantSaves,
                 searchService>>

\* what the user may type into the input
TypedTexts == {<<>>, <<" ">>, <<"H", "i">>}

\* setCurrentMessage, on input
Type(text) ==
  /\ currentMessage # text
  /\ currentMessage' = text
  /\ UNCHANGED <<server, connectionStatus, wsConnection, conversations,
                 activeConversation, sending, sockets, timers, sent, attempts,
                 mounted, detached, assistantSaves, searchService>>

\* the token cookie the browser holds: user 1 signed in at time 0
ClientCookie == JwtSign(1, "Ann", EmailPlain, 0)

CanSendWithHandle == wsConnection # NoSocket

\* the negation of !wsConnection || connectionStatus !== "connected"
CanSend == wsConnection # NoSocket /\ connectionStatus = "connected"

UserMessage(text) == [type |-> "user", content |-> text]

\* the element of the in-memory list with the given id
MemoryConversation(id) ==
  CHOOSE c \in {conversations[i] : i \in 1..Len(conversations)} : c.id = id

IsTemporaryId(id) == id < 0

\* the number of messages in the first n conversations of the in-memory list
RECURSIVE MemoryMessages(_)
MemoryMessages(n) ==
  IF n = 0 THEN 0 ELSE Len(conversations[n].messages) + MemoryMessages(n - 1)

\* sendMessage up to its first await: the early returns, or the user message
\* and the request that comes first
SendMessage ==
  /\ sending.pc \in {"idle", "returned"}
  /\ IF Trim(currentMessage) = <<>> \/ ~CanSend
       THEN /\ sending' = [pc |-> "returned"]
            /\ UNCHANGED <<conversations, activeConversation>>
       ELSE /\ MemoryMessages(Len(conversations)) < MaxSent
            /\ IF activeConversation = NoConversation
                    \/ IsTemporaryId(activeConversation)
                 THEN /\ sending' =
                           [pc |-> "creating", text |-> Trim(currentMessage),
                            ws |-> wsConnection, conv |-> activeConversation,
                            before |-> IF activeConversation = NoConversation
                                         THEN <<>>
                                         ELSE MemoryConversation(activeConversation).messages]
                      /\ UNCHANGED <<conversations, activeConversation>>
                 ELSE LET old == MemoryConversation(activeConversation)
                          updatedConv ==
                            [old EXCEPT !.messages =
                               Append(@, UserMessage(Trim(currentMessage)))]
                      IN  /\ conversations' =
                               [i \in 1..Len(conversations) |->
                                  IF conversations[i].id = updatedConv.id
                                    THEN updatedConv ELSE conversations[i]]
                          /\ UNCHANGED activeConversation
                          /\ sending' = [pc |-> "saving", text |-> Trim(currentMessage),
                                         ws |-> wsConnection, conv |-> updatedConv.id]
  /\ UNCHANGED <<server, connectionStatus, wsConnection, currentMessage, sockets,
                 timers, sent, attempts, mounted, detached, assistantSaves,
                 searchService>>

\* the server handles the POST /api/conversations of createConversationInDB
ServeCreateConversation ==
  /\ sending.pc = "creating"
  /\ CreateConversation(ClientCookie, sending.text)

\* sendMessage after createConversationInDB: return on failure, else put the
\* conversation with the user message first in the list and show it
SendMessageCreated ==
  /\ sending.pc = "creating"
  /\ resp.h = "createConversation"
  /\ resp' = NoResp
  /\ IF resp.status # 200
       THEN /\ sending' = IdleSend
            /\ UNCHANGED <<conversations, activeConversation>>
       ELSE LET updatedConv ==
                  [id |-> resp.data[1].id,
                   messages |-> Append(sending.before, UserMessage(sending.text))]
            IN  /\ conversations' = <<updatedConv>> \o conversations
                /\ activeConversation' = updatedConv.id
                /\ sending' = [pc |-> "saving", text |-> sending.text,
                               ws |-> sending.ws, conv |-> updatedConv.id]
  /\ UNCHANGED <<users, convs, msgs, clock, signups, pager, env, connectionStatus,
                 wsConnection, currentMessage, sockets, timers, sent, attempts,
                 appends, mounted, detached, assistantSaves, searchService>>

\* the server handles the POST /api/messages of saveMessageToDB
ServeSaveMessage ==
  /\ sending.pc = "saving"
  /\ AppendMessage(ClientCookie, sending.conv, "user", sending.text)

\* no frame has come back for a query
NoReply == <<>>

\* sendMessage after saveMessageToDB, whatever it returned: clear the input
\* and send the query on the socket the call started with; a socket that is
\* no longer open discards the frame.  The entry of a frame sent also notes
\* the conversation the call was made in and the reply the agent gave.
SendMessageSaved ==
  /\ sending.pc = "saving"
  /\ resp.h = "postMessage"
  /\ resp' = NoResp
  /\ currentMessage' = <<>>
  /\ sent' = IF \E s \in sockets : s.id = sending.ws /\ s.state = "open"
               THEN Append(sent, [socket |-> sending.ws, query |-> sending.text,
                                  conv |-> sending.conv, reply |-> NoReply])
               ELSE sent
  /\ sending' = IdleSend
  /\ UNCHANGED <<users, convs, msgs, clock, signups, pager, env, connectionStatus,
                 wsConnection, conversations, activeConversation, sockets, timers,
                 attempts, appends, mounted, detached, assistantSaves,
                 searchService>>

\* the component after mounting: its effect has called connectWebSocket once
InitChat ==
  /\ users = StoredUsers
  /\ convs = {}
  /\ msgs = <<>>
  /\ clock = 0
  /\ signups = [p \in Procs |-> IdleSignup]
  /\ resp = NoResp
  /\ pager = IdlePager
  /\ env = Configured
  /\ appends = NoAppends
  /\ SearchConstructed
  /\ wsConnection = NoSocket
  /\ currentMessage = <<>>
  /\ conversations = <<>>
  /\ activeConversation = NoConversation
  /\ sending = IdleSend
  /\ sent = <<>>
  /\ attempts = 1
  /\ mounted = TRUE
  /\ detached = NoDetached
  /\ assistantSaves = <<>>
  /\ \/ /\ sockets = {[id |-> 1, state |-> "connecting"]}
        /\ connectionStatus = "disconnected"
        /\ timers = <<>>
     \/ /\ sockets = {}
        /\ connectionStatus = "error"
        /\ timers = <<ReconnectDelay>>

NextChat ==
  \/ Tick
  \/ \E t \in TypedTexts : Type(t)
  \/ SendMessage
  \/ ServeCreateConversation
  \/ SendMessageCreated
  \/ ServeSaveMessage
  \/ SendMessageSaved
  \/ \E throws \in BOOLEAN : ReconnectTimerFires(throws)
  \/ \E s \in sockets : SocketOpens(s)
  \/ \E s \in sockets : SocketErrors(s)
  \/ \E s \in sockets : SocketCloses(s)

SpecChat == InitChat /\ [][NextChat]_vars

\* the event loop runs a timer that is due; the browser dispatches the close
\* event of a failed socket and ends a connection attempt by open or error
SpecChatLive ==
  /\ SpecChat
  /\ WF_vars(\E throws \in BOOLEAN : ReconnectTimerFires(throws))
  /\ WF_vars(\E s \in sockets : s.state = "failed" /\ SocketCloses(s))
  /\ WF_vars(\E s \in sockets : SocketOpens(s) \/ (s.state = "connecting" /\ SocketErrors(s)))

----------------------------------------------------------------------------
(* The conversation list of the chat component: the frames of the agent,     *)
(* the "New Conversation" button and the choice of a conversation.           *)

AssistantMessage(content) == [type |-> "assistant", content |-> content]

\* the content of the frames the agent sends; <<>> is a frame without content
ReplyContents == {<<"O", "k">>, <<>>}

\* activeConversation as the first render has it (useState(null)): the mount
\* effect runs once, so the handlers of every socket call the
\* handleWebSocketResponse of that render
FirstRenderActiveConversation == NoConversation

\* handleWebSocketResponse, called with the activeConversation it closed over
HandleWebSocketResponse(closed, content) ==
  /\ assistantSaves' =
       IF closed # NoConversation /\ content # <<>>
         THEN Append(assistantSaves,
                     [conversationId |-> closed, role |-> "assistant",
                      content |-> content])
         ELSE assistantSaves
  /\ IF activeConversation = NoConversation
       THEN UNCHANGED conversations
       ELSE LET prev == MemoryConversation(activeConversation)
                updated ==
                  [prev EXCEPT !.messages = Append(@, AssistantMessage(content))]
            IN  conversations' =
                  [k \in 1..Len(conversations) |->
                     IF conversations[k].id = updated.id
                       THEN updated ELSE conversations[k]]
  /\ UNCHANGED activeConversation

\* ws.onmessage: the agent's reply to the i-th query, sent under this socket
SocketMessage(s, i, content) ==
  /\ s.state = "open"
  /\ i \in 1..Len(sent)
  /\ sent[i].socket = s.id
  /\ sent[i].reply = NoReply
  /\ sent' = [sent EXCEPT ![i].reply = <<[content |-> content]>>]
  /\ HandleWebSocketResponse(FirstRenderActiveConversation, content)
  /\ UNCHANGED <<server, connectionStatus, wsConnection, currentMessage, sending,
                 sockets, timers, attempts, mounted, detached, searchService>>

\* onClick of an entry of the list: setActiveConversation(conv)
SelectConversation(k) ==
  /\ k \in 1..Len(conversations)
  /\ conversations[k].id # activeConversation
  /\ activeConversation' = conversations[k].id
  /\ UNCHANGED <<server, connectionStatus, wsConnection, currentMessage,
                 conversations, sending, sockets, timers, sent, attempts, mounted,
                 detached, assistantSaves, searchService>>

\* the entries of the list with an id "temp-..."
TemporaryEntries ==
  {k \in 1..Len(conversations) : IsTemporaryId(conversations[k].id)}

\* createNewConversation; the ids "temp-" + Date.now() of two clicks differ
CreateNewConversation ==
  LET newConv == [id |-> 0 - (Cardinality(TemporaryEntries) + 1), messages |-> <<>>]
  IN  /\ Cardinality(TemporaryEntries) < MaxTemp
      /\ conversations' = <<newConv>> \o conversations
      /\ activeConversation' = newConv.id
      /\ currentMessage' = <<>>
      /\ UNCHANGED <<server, connectionStatus, wsConnection, sending, sockets,
                     timers, sent, attempts, mounted, detached, assistantSaves,
                     searchService>>

NextConversations ==
  \/ Tick
  \/ \E t \in TypedTexts : Type(t)
  \/ SendMessage
  \/ ServeCreateConversation
  \/ SendMessageCreated
  \/ ServeSaveMessage
  \/ SendMessageSaved
  \/ \E throws \in BOOLEAN : ReconnectTimerFires(throws)
  \/ \E s \in sockets : SocketOpens(s)
  \/ \E s \in sockets : SocketErrors(s)
  \/ \E s \in sockets : SocketCloses(s)
  \/ \E s \in sockets, i \in 1..Len(sent), c \in ReplyContents : SocketMessage(s, i, c)
  \/ \E k \in 1..Len(conversations) : SelectConversation(k)
  \/ CreateNewConversation

SpecConversations == InitChat /\ [][NextConversations]_vars

----------------------------------------------------------------------------
(* Mounting and unmounting the chat component.  The browser keeps the        *)
(* sockets and timers of a component that was unmounted; their handlers run  *)
(* on, and the state setters they call have no effect.                       *)

\* wsConnection as the first render has it (useState(null)): the cleanup of
\* the mount effect closes over it
FirstRenderWsConnection == NoSocket

\* the chains of connection attempts that unmounted components left running
DetachedChains == Cardinality(detached.sockets) + Len(detached.timers)

\* the cleanup of the mount effect (close() of the socket it closed over is
\* followed by that socket's close event), and the end of the component
Unmount ==
  /\ mounted
  /\ sending.pc \in {"idle", "returned"}
  /\ DetachedChains + Cardinality(sockets) + Len(timers) <= MaxDetached
  /\ mounted' = FALSE
  /\ detached' =
       [sockets |-> detached.sockets
                      \cup {IF s.id = FirstRenderWsConnection
                              THEN [s EXCEPT !.state = "failed"] ELSE s :
                            s \in sockets},
        timers |-> detached.timers \o timers]
  /\ connectionStatus' = "disconnected"
  /\ wsConnection' = NoSocket
  /\ currentMessage' = <<>>
  /\ conversations' = <<>>
  /\ activeConversation' = NoConversation
  /\ sending' = IdleSend
  /\ sockets' = {}
  /\ timers' = <<>>
  /\ UNCHANGED <<server, sent, attempts, assistantSaves, searchService>>

\* the component is mounted: its effect calls connectWebSocket
Mount(throws) ==
  /\ ~mounted
  /\ mounted' = TRUE
  /\ ConnectWebSocket(<<>>, throws)
  /\ UNCHANGED <<server, wsConnection, currentMessage, conversations,
                 activeConversation, sending, sent, detached, assistantSaves,
                 searchService>>

\* onopen of a socket of an unmounted component
DetachedSocketOpens(s) ==
  /\ s.state = "connecting"
  /\ detached' = [detached EXCEPT
                    !.sockets = (@ \ {s}) \cup {[s EXCEPT !.state = "open"]}]
  /\ UNCHANGED <<server, connectionStatus, wsConnection, currentMessage,
                 conversations, activeConversation, sending, sockets, timers, sent,
                 attempts, mounted, assistantSaves, searchService>>

\* onerror of a socket of an unmounted component
DetachedSocketErrors(s) ==
  /\ s.state \in {"connecting", "open"}
  /\ detached' = [detached EXCEPT
                    !.sockets = (@ \ {s}) \cup {[s EXCEPT !.state = "failed"]}]
  /\ UNCHANGED <<server, connectionStatus, wsConnection, currentMessage,
                 conversations, activeConversation, sending, sockets, timers, sent,
                 attempts, mounted, assistantSaves, searchService>>

\* onclose of a socket of an unmounted component: setTimeout(connectWebSocket, 3000)
DetachedSocketCloses(s) ==
  /\ s.state \in {"open", "failed"}
  /\ detached' = [sockets |-> detached.sockets \ {s},
                  timers |-> Append(detached.timers, ReconnectDelay)]
  /\ UNCHANGED <<server, connectionStatus, wsConnection, currentMessage,
                 conversations, activeConversation, sending, sockets, timers, sent,
                 attempts, mounted, assistantSaves, searchService>>

\* a timer of an unmounted component comes due: its connectWebSocket runs
DetachedTimerFires(throws) ==
  /\ detached.timers # <<>>
  /\ attempts' = (attempts + 1) % AttemptsModulus
  /\ detached' =
       IF throws
         THEN [detached EXCEPT !.timers = Append(Tail(@), ReconnectDelay)]
         ELSE [sockets |-> detached.sockets
                             \cup {[id |-> NewSocketId, state |-> "connecting"]},
               timers |-> Tail(detached.timers)]
  /\ UNCHANGED <<server, connectionStatus, wsConnection, currentMessage,
                 conversations, activeConversation, sending, sockets, timers, sent,
                 mounted, assistantSaves, searchService>>

NextMount ==
  \/ Unmount
  \/ \E throws \in BOOLEAN : Mount(throws)
  \/ \E throws \in BOOLEAN : ReconnectTimerFires(throws)
  \/ \E s \in sockets : SocketOpens(s)
  \/ \E s \in sockets : SocketErrors(s)
  \/ \E s \in sockets : SocketCloses(s)
  \/ \E s \in detached.sockets : DetachedSocketOpens(s)
  \/ \E s \in detached.sockets : DetachedSocketErrors(s)
  \/ \E s \in detached.sockets : DetachedSocketCloses(s)
  \/ \E throws \in BOOLEAN : DetachedTimerFires(throws)

SpecMount == InitChat /\ [][NextMount]_vars

----------------------------------------------------------------------------
(* SearchService.searchGoogle: the rate limiter and the cache, with calls    *)
(* that run concurrently and give way at the await of fetch.                 *)

\* the options of the calls, as JSON.stringify gives them
SearchOptions == {"{}"}

\* cacheKey: `${query}_${JSON.stringify(options)}`
CacheKey(query, options) == <<query, options>>

\* the keys of the calls that wait for their fetch
KeysInFlight == {calls[p].key : p \in {q \in Procs : calls[q].pc = "fetching"}}

\* the queries a caller makes: the first query again, or one not made before
NewQuery ==
  CHOOSE n \in 1..(RateLimit + MaxOverrun + 1) :
    /\ \A o \in SearchOptions : CacheKey(n, o) \notin DOMAIN cache \cup KeysInFlight
    /\ \A m \in 1..(n - 1) :
         \E o \in SearchOptions : CacheKey(m, o) \in DOMAIN cache \cup KeysInFlight

Queries == {1, NewQuery}

\* parseSearchResults(data) for the response to a query
SearchResults(key) == <<[title |-> key[1]]>>

RateLimited ==
  rateLimiter.requests >= RateLimit /\ clock < rateLimiter.resetTime

\* searchGoogle up to its first await: the rate limit, the cache, and fetch
SearchStart(p, query, options) ==
  LET key == CacheKey(query, options)
  IN  /\ calls[p].pc = "idle"
      /\ IF RateLimited
           THEN /\ calls' = [calls EXCEPT ![p] =
                               [pc |-> "thrown", key |-> key,
                                error |-> "Rate limit exceeded"]]
                /\ UNCHANGED issued
         ELSE IF key \in DOMAIN cache
           THEN /\ calls' = [calls EXCEPT ![p] =
                               [pc |-> "returned", key |-> key,
                                results |-> cache[key]]]
                /\ UNCHANGED issued
         ELSE /\ rateLimiter.requests + Cardinality(KeysInFlight) < RateLimit + MaxOverrun
              /\ issued < RateLimit + MaxOverrun
              /\ calls' = [calls EXCEPT ![p] = [pc |-> "fetching", key |-> key]]
              /\ issued' = IF clock < rateLimiter.resetTime THEN issued + 1 ELSE issued
      /\ UNCHANGED <<server, client, cache, rateLimiter>>

\* the response of fetch arrives: a response that is not ok is thrown and
\* caught, and [] is returned; else the results are cached and counted
SearchResponse(p, ok) ==
  LET key == calls[p].key
  IN  /\ calls[p].pc = "fetching"
      /\ IF ok
           THEN /\ cache' = [k \in DOMAIN cache \cup {key} |->
                               IF k = key THEN SearchResults(key) ELSE cache[k]]
                /\ rateLimiter' = [rateLimiter EXCEPT !.requests = @ + 1]
                /\ calls' = [calls EXCEPT ![p] =
                               [pc |-> "returned", key |-> key,
                                results |-> SearchResults(key)]]
           ELSE /\ calls' = [calls EXCEPT ![p] =
                               [pc |-> "returned", key |-> key, results |-> <<>>]]
                /\ UNCHANGED <<cache, rateLimiter>>
      /\ UNCHANGED <<server, client, issued>>

\* the caller has the result or the exception
SearchDone(p) ==
  /\ calls[p].pc \in {"returned", "thrown"}
  /\ calls' = [calls EXCEPT ![p] = IdleCall]
  /\ UNCHANGED <<server, client, cache, rateLimiter, issued>>

\* the queries answered before: MaxOverrun fewer than the limit
Answered == RateLimit - MaxOverrun

\* the service on the day it was constructed, after it has answered that
\* many different queries one at a time
InitSearch ==
  /\ users = StoredUsers
  /\ convs = {}
  /\ msgs = <<>>
  /\ clock = 0
  /\ signups = [p \in Procs |-> IdleSignup]
  /\ resp = NoResp
  /\ pager = IdlePager
  /\ env = Configured
  /\ appends = NoAppends
  /\ ClientUnmounted
  /\ cache = [k \in {CacheKey(n, "{}") : n \in 1..Answered} |-> SearchResults(k)]
  /\ rateLimiter = [requests |-> Answered, resetTime |-> clock + ResetTicks]
  /\ calls = [p \in Procs |-> IdleCall]
  /\ issued = Answered

\* every fetch is answered with a response that is ok
NextSearch ==
  \/ Tick
  \/ \E p \in Procs, q \in Queries, o \in SearchOptions : SearchStart(p, q, o)
  \/ \E p \in Procs : SearchResponse(p, TRUE)
  \/ \E p \in Procs : SearchDone(p)

SpecSearch == InitSearch /\ [][NextSearch]_vars

----------------------------------------------------------------------------
(* The paging specification: one conversation of user 1 that already holds   *)
(* messages, and a client that walks its pages, passing each response's      *)
(* nextCursor as the cursor of the next request until it gets null.          *)

PagedConversation ==
  [id |-> 1, user |-> 1, title |-> GenerateTitle(<<"H", "i">>),
   lastMessageAt |-> MaxTime, createdAt |-> 0, updatedAt |-> MaxTime]

\* the message lists that appends at times 0..MaxTime leave in the conversation
StoredMessageLists ==
  UNION {
    {[i \in 1..n |->
        [id |-> i, conversation |-> 1, role |-> "user", content |-> <<"H", "i">>,
         sender |-> 1, createdAt |-> t[i]]] :
       t \in {f \in [1..n -> 0..MaxTime] : \A i, j \in 1..n : i < j => f[i] <= f[j]}} :
    n \in 0..MaxPageMsgs}

OwnerCookie == JwtSign(1, "Ann", EmailPlain, MaxTime)

\* GET /api/messages with the cursor of the previous page
FetchPage ==
  /\ resp = NoResp
  /\ pager.pc = "paging"
  /\ \E r \in GetMessagesResponses(
                StoreRequest(OwnerCookie, pager.conv, "", <<>>, pager.limit,
                             pager.cursor, <<>>)) :
       /\ resp' = r
       /\ pager' = [pager EXCEPT
                      !.pc = IF r.status # 200 \/ r.nextCursor = NoCursor
                               THEN "done" ELSE "paging",
                      !.cursor = r.nextCursor,
                      !.pages = Append(pager.pages, r.data)]
  /\ UNCHANGED <<users, convs, msgs, clock, signups, env, client, appends, searchService>>

InitPage ==
  /\ users = StoredUsers
  /\ convs = {PagedConversation}
  /\ msgs \in StoredMessageLists
  /\ clock = MaxTime
  /\ signups = [p \in Procs |-> IdleSignup]
  /\ resp = NoResp
  /\ pager \in {[pc |-> "paging", limit |-> l, cursor |-> NoCursor, pages |-> <<>>,
                 conv |-> 1] : l \in LimitInputs}
  /\ env = Configured
  /\ appends = NoAppends
  /\ SearchConstructed
  /\ ClientUnmounted

NextPage ==
  \/ FetchPage
  \/ \E l \in LimitInputs, k \in CursorInputs : GetMessages(OwnerCookie, 1, l, k)
  \/ ResponseReceived

SpecPage == InitPage /\ [][NextPage]_vars

----------------------------------------------------------------------------
(* Properties of sign-up and sign-in, checked under SpecAuth *)

SignUpResponded == resp.h = "signup"

\* the basic pattern: something@something.something, the parts free of whitespace
NoSpaceIn(s) == \A i \in 1..Len(s) : s[i] # " "

MatchesBasicPattern(s) ==
  \E a, b, c, d \in 1..Len(s) :
    /\ a < b /\ b + 1 < c /\ c < d
    /\ s[b] = "@" /\ s[c] = "."
    /\ NoSpaceIn(SubSeq(s, a, b - 1))
    /\ NoSpaceIn(SubSeq(s, b + 1, c - 1))
    /\ NoSpaceIn(SubSeq(s, c + 1, d))

SignUpRequestInvalid(req) ==
  \/ req.fullName = "" \/ req.email = <<>> \/ req.password = <<>>
  \/ ~MatchesBasicPattern(req.email)
  \/ Len(req.password) < 8

\* C4: sign-in with an unknown email and sign-in with a known email but a wrong
\* password get the same response, status 401 with the identical message, from
\* every sign-in handler.
C4_EnumerationResistance ==
  \A e1 \in Emails, e2 \in Emails, p1 \in SignInPasswords, p2 \in SignInPasswords :
    LET known(e) == \E u \in users : u.email \in {ToLowerCase(e), ToLowerCase(Trim(e))}
        wrong(e, p) ==
          \A u \in users :
            u.email \in {ToLowerCase(e), ToLowerCase(Trim(e))}
              => ~BcryptCompare(p, u.password)
    IN  (/\ Trim(e1) # <<>> /\ Trim(e2) # <<>> /\ p1 # <<>> /\ p2 # <<>>
         /\ ~known(e1)
         /\ known(e2) /\ wrong(e2, p2))
        => /\ \A r1 \in SignInResponses(users, e1, p1, clock),
                 r2 \in SignInResponses(users, e2, p2, clock) :
                r1.status = 401 /\ r2.status = 401 /\ r1.message = r2.message
           /\ \A r1 \in LoginResponses(users, e1, p1, clock),
                 r2 \in LoginResponses(users, e2, p2, clock) :
                r1.status = 401 /\ r2.status = 401 /\ r1.message = r2.message

\* C5: after a sign-up answered 201, signing in with the same email and password
\* returns 200 and a token whose id, email and username are those of the user
\* the sign-up created, whatever accepted email was used.
C5_SignInAfterSignUp ==
  (SignUpResponded /\ resp.status = 201)
    => \A r \in SignInResponses(users, resp.req.email, resp.req.password, clock) :
         /\ r.status = 200
         /\ r.cookie.sig = "valid"
         /\ r.cookie.id = resp.user.id
         /\ r.cookie.email = resp.user.email
         /\ r.cookie.username = resp.user.username

\* C8: the credential store never holds two user records with the same
\* lower-cased email, whatever the interleaving of sign-ups.
C8_EmailUnique ==
  \A u1 \in users, u2 \in users :
    ToLowerCase(u1.email) = ToLowerCase(u2.email) => u1 = u2

\* two sign-ups for one email both passed the existence check, and the store
\* turned the second one down
C8_RaceHappened ==
  /\ SignUpResponded /\ resp.status = 500
  /\ \E u \in users : u.email = ToLowerCase(resp.req.email)

\* C9: an otherwise valid sign-up whose email is already in the store when the
\* record would be created is answered 409 (and creates no user), also for the
\* loser of two concurrent sign-ups.
C9_ConflictIs409 ==
  (/\ SignUpResponded
   /\ ~SignUpRequestInvalid(resp.req)
   /\ resp.status # 201)
    => resp.status = 409

\* C10: a sign-up with a missing field, an email off the pattern or a password
\* under 8 characters is answered 400 with no token cookie and creates no user;
\* every stored user has an email on the pattern and a password of 8 or more.
C10_InvalidSignUpRejected ==
  /\ [](/\ (SignUpResponded /\ SignUpRequestInvalid(resp.req))
             => resp.status = 400 /\ resp.cookie = NoCookie
        /\ \A u \in users :
             /\ u.fullName # ""
             /\ MatchesBasicPattern(u.email)
             /\ Len(u.password.digest) >= 8)
  /\ [][(resp'.h = "signup" /\ resp'.status = 400) => users' = users]_vars

C10_ShortPasswordRejected ==
  /\ SignUpResponded /\ resp.status = 400
  /\ resp.req.fullName # "" /\ MatchesBasicPattern(resp.req.email)
  /\ Len(resp.req.password) = 7
  /\ users # {}

----------------------------------------------------------------------------
(* Properties of the authenticated handlers, checked under Spec *)

\* the request that resp answers carried a token that was signed by the server
\* for user id and had not expired when the request was made
AuthenticatedAs(r, id) ==
  /\ r.req.cookie.sig = "valid"
  /\ r.req.at < r.req.cookie.exp
  /\ r.req.cookie.id = id

OwnerOf(conversationId) == {c.user : c \in {d \in convs : d.id = conversationId}}

\* C1: a page-messages request by user B for a conversation owned by another
\* user A is answered 403 and carries no message data.
C1_ForeignConversationForbidden ==
  \A a \in users, b \in users :
    (/\ a # b
     /\ resp.h = "getMessages"
     /\ AuthenticatedAs(resp, b.id)
     /\ a.id \in OwnerOf(resp.req.conversationId))
      => resp.status = 403 /\ resp.data = <<>> /\ resp.nextCursor = NoCursor

\* B asked for the messages of a conversation of A that holds a message
C1_ForeignRequestMade ==
  /\ resp.h = "getMessages"
  /\ \E a \in users, b \in users :
       /\ a # b
       /\ AuthenticatedAs(resp, b.id)
       /\ a.id \in OwnerOf(resp.req.conversationId)
  /\ \E i \in 1..Len(msgs) : msgs[i].conversation = resp.req.conversationId

\* C2: every message enters the store by an append request whose authenticated
\* caller owns the parent conversation; an append by anyone else adds nothing.
C2_MessagesOnlyByOwner ==
  [][msgs' # msgs =>
       /\ Len(msgs') = Len(msgs) + 1
       /\ SubSeq(msgs', 1, Len(msgs)) = msgs
       /\ resp'.h = "postMessage" /\ resp'.status = 200
       /\ resp'.req.conversationId = msgs'[Len(msgs')].conversation
       /\ \E u \in users :
            /\ AuthenticatedAs(resp', u.id)
            /\ OwnerOf(msgs'[Len(msgs')].conversation) = {u.id}]_vars

\* a user who does not own the conversation tried to append to it, and the
\* conversation holds a message of its owner
C2_ForeignAppendTried ==
  /\ resp.h = "postMessage" /\ resp.status = 403
  /\ \E u \in users :
       /\ AuthenticatedAs(resp, u.id)
       /\ OwnerOf(resp.req.conversationId) # {}
       /\ u.id \notin OwnerOf(resp.req.conversationId)
  /\ \E i \in 1..Len(msgs) : msgs[i].conversation = resp.req.conversationId

AuthenticatedHandlers ==
  {"createConversation", "createTitledConversation", "listConversations",
   "postMessage", "getMessages", "dashboard"}

\* the token cookie of the request was missing, tampered with or expired
TokenRejected(r) ==
  /\ r.h \in AuthenticatedHandlers
  /\ \/ r.req.cookie.sig # "valid"
     \/ r.req.at >= r.req.cookie.exp

\* C3: every authenticated handler answers a request whose token cookie is
\* missing, expired or tampered with 401 and leaves the user, conversation and
\* message stores as they were.
C3_BadTokenRejected ==
  /\ [](TokenRejected(resp) => resp.status = 401)
  /\ [][TokenRejected(resp') => UNCHANGED <<users, convs, msgs>>]_vars

\* an append with an expired token was turned down while a conversation exists
C3_ExpiredTokenRejected ==
  /\ resp.h = "postMessage"
  /\ resp.req.cookie.sig = "valid" /\ resp.req.at >= resp.req.cookie.exp
  /\ resp.status = 401
  /\ \E c \in convs : c.id = resp.req.conversationId /\ c.user = resp.req.cookie.id

----------------------------------------------------------------------------
(* Properties of paging, checked under SpecPage *)

RECURSIVE Concat(_)
Concat(pages) == IF pages = <<>> THEN <<>> ELSE Head(pages) \o Concat(Tail(pages))

\* the pages fetched, later pages placed before earlier ones
PagedSequence == Concat(Reverse(pager.pages))

OldestFirst(q) == \A i, j \in 1..Len(q) : i < j => q[i].createdAt <= q[j].createdAt

MessagesOf(conversationId) ==
  {msgs[i] : i \in {k \in 1..Len(msgs) : msgs[k].conversation = conversationId}}

\* C6: walking the pages with successive cursors until nextCursor is null gives
\* pages that do not overlap and that, later pages first, make up the whole
\* oldest-to-newest message list of the conversation, also when messages share
\* a creation timestamp.
C6_PagingComplete ==
  pager.pc = "done" =>
    /\ OldestFirst(PagedSequence)
    /\ \A i, j \in 1..Len(PagedSequence) : i # j => PagedSequence[i] # PagedSequence[j]
    /\ {PagedSequence[i] : i \in 1..Len(PagedSequence)} = MessagesOf(pager.conv)

PageServed == resp.h = "getMessages" /\ resp.status = 200

\* the messages of the conversation the query matches that are not in the page
RemainingAfterPage ==
  {m \in MessagesOf(resp.req.conversationId) :
     /\ resp.req.cursor # NoCursor => m.createdAt < resp.req.cursor
     /\ \A i \in 1..Len(resp.data) : resp.data[i] # m}

\* C7 as stated: the page is oldest-first, nextCursor is the creation time of
\* its oldest message, and nextCursor is null whenever no older message remains.
C7_CursorNullWhenExhausted ==
  PageServed =>
    /\ OldestFirst(resp.data)
    /\ IF RemainingAfterPage = {}
         THEN resp.nextCursor = NoCursor
         ELSE resp.data # <<>> /\ resp.nextCursor = resp.data[1].createdAt

\* C7 as amended: the page is oldest-first and holds the newest messages the
\* query matches, at most the page size (50 when no limit is given); nextCursor
\* is the creation time of the oldest message of a page that is not empty,
\* also when nothing older remains, and null exactly when the page is empty.
C7_CursorOfOldestInPage ==
  PageServed =>
    /\ OldestFirst(resp.data)
    /\ Len(resp.data) <= (IF resp.req.limit = NoLimit THEN 50 ELSE resp.req.limit)
    /\ \A i \in 1..Len(resp.data) :
         /\ resp.data[i] \in MessagesOf(resp.req.conversationId)
         /\ resp.data[1].createdAt <= resp.data[i].createdAt
         /\ \A m \in RemainingAfterPage : m.createdAt <= resp.data[i].createdAt
    /\ (resp.data # <<>> => resp.nextCursor = resp.data[1].createdAt)
    /\ (resp.data = <<>> => resp.nextCursor = NoCursor /\ RemainingAfterPage = {})

\* a page of two messages of different times that leaves nothing older behind
\* and still carries a cursor
C7_LastPageHasCursor ==
  /\ PageServed
  /\ Len(resp.data) >= 2
  /\ resp.data[1].createdAt < resp.data[Len(resp.data)].createdAt
  /\ RemainingAfterPage = {}
  /\ resp.nextCursor # NoCursor

----------------------------------------------------------------------------
(* Properties of the append handler, checked under Spec *)

\* the append request of response r is well formed and its authenticated
\* caller does not own the conversation it names
AppendToUnowned(r) ==
  /\ r.h = "postMessage"
  /\ r.req.conversationId \notin {MissingId, MalformedId}
  /\ r.req.role # "" /\ r.req.content # <<>>
  /\ \E u \in users :
       /\ AuthenticatedAs(r, u.id)
       /\ u.id \notin OwnerOf(r.req.conversationId)

C12_AppendStoresOneMessage ==
  [][resp' # resp /\ resp'.h = "postMessage" /\ resp'.status = 200 =>
       /\ Len(msgs') = Len(msgs) + 1
       /\ SubSeq(msgs', 1, Len(msgs)) = msgs
       /\ msgs'[Len(msgs')].conversation = resp'.req.conversationId
       /\ msgs'[Len(msgs')].role = resp'.req.role
       /\ msgs'[Len(msgs')].content = resp'.req.content
       /\ \E c \in convs' :
            /\ c.id = resp'.req.conversationId
            /\ c.lastMessageAt >= resp'.req.at]_vars

\* an append to a conversation created earlier was answered 200
C12_AppendedLater ==
  /\ resp.h = "postMessage" /\ resp.status = 200
  /\ \E c \in convs :
       c.id = resp.req.conversationId /\ c.createdAt < resp.req.at

----------------------------------------------------------------------------
(* Properties of the conversation list and the dashboard, checked under      *)
(* SpecHistory                                                               *)

OwnedBy(userId) == {c \in convs : c.user = userId}

HasMessages(conversationId) ==
  \E i \in 1..Len(msgs) : msgs[i].conversation = conversationId

\* the creation time of the newest message of a conversation that has messages
LastMessageTime(conversationId) ==
  SetMax({msgs[i].createdAt :
            i \in {j \in 1..Len(msgs) : msgs[j].conversation = conversationId}})

DashboardsOf(userId) ==
  {DashboardStats(userId, Limit(recent, RecentChatsLimit), clock) :
     recent \in SortedDescending(OwnedBy(userId), LastMessageAt(OwnedBy(userId)))}

\* C14: the dashboard's totals are the counts of the caller's conversations
\* and of the messages in them, recentChats holds at most 5 conversations,
\* all the caller's, the most recently active ones, most recent first; and a
\* request made by anyone else never changes what the dashboard answers to a
\* user.
C14_DashboardOfCallerOnly ==
  /\ [](\A u \in users :
          (resp.h = "dashboard" /\ AuthenticatedAs(resp, u.id)) =>
            /\ resp.status = 200
            /\ resp.data.totalConversations = Cardinality(OwnedBy(u.id))
            /\ resp.data.totalMessages =
                 Cardinality({i \in 1..Len(msgs) :
                                OwnerOf(msgs[i].conversation) = {u.id}})
            /\ Len(resp.data.recentChats) <= 5
            /\ Len(resp.data.recentChats) = Cardinality(OwnedBy(u.id))
                 \/ Len(resp.data.recentChats) = 5
            /\ \A i \in 1..Len(resp.data.recentChats) :
                 resp.data.recentChats[i] \in OwnedBy(u.id)
            /\ \A i, j \in 1..Len(resp.data.recentChats) :
                 i < j =>
                   /\ resp.data.recentChats[i] # resp.data.recentChats[j]
                   /\ resp.data.recentChats[i].lastMessageAt
                        >= resp.data.recentChats[j].lastMessageAt
            /\ \A c \in OwnedBy(u.id) :
                 \/ \E i \in 1..Len(resp.data.recentChats) :
                      resp.data.recentChats[i] = c
                 \/ \A i \in 1..Len(resp.data.recentChats) :
                      resp.data.recentChats[i].lastMessageAt >= c.lastMessageAt)
  /\ [][\A u \in users :
          (resp' # resp /\ resp' # NoResp /\ ~AuthenticatedAs(resp', u.id))
            => DashboardsOf(u.id)' = DashboardsOf(u.id)]_vars

\* a user with more than 5 conversations got the dashboard after the other
\* user had created a conversation and appended a message
C14_DashboardAfterForeignWrites ==
  /\ resp.h = "dashboard" /\ resp.status = 200
  /\ \E u \in users :
       /\ AuthenticatedAs(resp, u.id)
       /\ Cardinality(OwnedBy(u.id)) > 5
       /\ \E c \in convs : c.user # u.id /\ c.createdAt >= 0
       /\ \E i \in 1..Len(msgs) :
            msgs[i].createdAt >= 0 /\ u.id \notin OwnerOf(msgs[i].conversation)

\* the place in the week, Monday = 1 .. Sunday = 7, of the day of tick t
WeekdayOf(t) == ((t + 6) % 7) + 1

\* C15: weeklyData has exactly 7 entries named Mon .. Sun in that order; each
\* value is the number of the caller's conversations created in the trailing
\* 7 days on that weekday, 0 for a weekday without any, and the values add up
\* to the number of the caller's conversations created in the window.
C15_WeeklyHistogram ==
  \A u \in users :
    (resp.h = "dashboard" /\ resp.status = 200 /\ AuthenticatedAs(resp, u.id)) =>
      LET w == resp.data.weeklyData
          inWindow == {c \in OwnedBy(u.id) : c.createdAt >= resp.req.at - 7}
      IN  /\ Len(w) = 7
          /\ <<w[1].day, w[2].day, w[3].day, w[4].day, w[5].day, w[6].day, w[7].day>>
               = <<"Mon", "Tue", "Wed", "Thu", "Fri", "Sat", "Sun">>
          /\ \A i \in 1..7 :
               w[i].value = Cardinality({c \in inWindow : WeekdayOf(c.createdAt) = i})
          /\ w[1].value + w[2].value + w[3].value + w[4].value + w[5].value
               + w[6].value + w[7].value = Cardinality(inWindow)

\* the histogram of a user shows two conversations on one weekday, none on
\* another, a conversation created on a Sunday, and leaves out a conversation
\* older than the window
C15_HistogramCases ==
  /\ resp.h = "dashboard" /\ resp.status = 200
  /\ \E i \in 1..7 : resp.data.weeklyData[i].value = 2
  /\ \E i \in 1..7 : resp.data.weeklyData[i].value = 0
  /\ resp.data.weeklyData[7].value >= 1
  /\ \E c \in convs :
       c.user = resp.req.cookie.id /\ c.createdAt < resp.req.at - 7

----------------------------------------------------------------------------
(* Properties of the dashboard under store faults, checked under SpecFaults *)

\* a store operation of the dashboard request of response r threw: connectDB,
\* which comes before the token is looked at, or a later one, which only a
\* request with a good token reaches
DashboardOpFailed(r) ==
  /\ r.h = "dashboard"
  /\ \/ r.req.fault = "connectDB"
     \/ /\ r.req.fault # NoFault
        /\ r.req.cookie.sig = "valid" /\ r.req.at < r.req.cookie.exp

\* C16: when a store operation fails while the dashboard is computed, the
\* response says success = false and carries no stats object at all.
C16_FailedDashboardHasNoStats ==
  DashboardOpFailed(resp) =>
    /\ resp.success = FALSE
    /\ resp.data = NoStats
    /\ resp.status = 500

\* the last query of the handler failed for a caller who has conversations
\* and messages, after the counts had been computed
C16_LateFaultHappened ==
  /\ DashboardOpFailed(resp)
  /\ resp.req.fault = "Message.find"
  /\ \E c \in convs : c.user = resp.req.cookie.id /\ HasMessages(c.id)

----------------------------------------------------------------------------
(* Properties of token verification, checked under Spec *)

\* the cookie is missing, carries a bad signature or has expired
BadCookie(cookie, now) == cookie.sig # "valid" \/ now >= cookie.exp

\* C17: verifying a token never raises: for a missing cookie, a bad signature
\* and an expired token it yields null; and every handler that got null
\* answers 401, never 500.
C17_VerificationFailsToNull ==
  /\ \A c \in Cookies(clock) :
       /\ GetUserFromToken(c, clock) # Raised
       /\ GetDataFromToken(c, clock) # Raised
       /\ BadCookie(c, clock) =>
            /\ GetUserFromToken(c, clock) = NoIdentity
            /\ GetDataFromToken(c, clock) = NoIdentity
  /\ (resp.h \in AuthenticatedHandlers \cup {"me"}
        /\ BadCookie(resp.req.cookie, resp.req.at)) => resp.status = 401

\* the session route was asked with an expired token and with a tampered one
C17_MeAskedWithExpiredToken ==
  /\ resp.h = "me"
  /\ resp.req.cookie.sig = "valid" /\ resp.req.at >= resp.req.cookie.exp
  /\ \E c \in Cookies(clock) : c.sig = "bad"

----------------------------------------------------------------------------
(* Properties of a server without JWT_SECRET, checked under SpecNoSecret *)

\* no response of this state shows a session or issues one
NoSessionInResponse ==
  /\ resp.h \in AuthenticatedHandlers \cup {"me"} => resp.status = 401
  /\ resp.h \in {"signin", "signup"} =>
       resp.status >= 400 /\ resp.cookie = NoCookie

\* C18: while the signing secret is not configured, no request counts as
\* authenticated, no token or cookie is issued, sign-in and sign-up end in an
\* error response, and the credential store stays as it was.
C18_NoSecretNoSession ==
  [][env.JWT_SECRET = "" => NoSessionInResponse' /\ users' = users]_vars

----------------------------------------------------------------------------
(* Properties of the realtime bridge, checked under SpecChatLive and SpecChat *)

\* a reconnect timer is scheduled, or a connection attempt or the close event
\* of a failed socket is still to come
ReconnectPending ==
  \/ timers # <<>>
  \/ \E s \in sockets : s.state \in {"connecting", "failed"}

\* C19: after every close event, every error event and every failed
\* construction of the WebSocket, connectWebSocket is called again, however
\* many calls came before; every reconnect timer has the delay of 3 seconds;
\* and the bridge is never disconnected or in error without a reconnect
\* pending.
C19_ReconnectsForever ==
  /\ [](connectionStatus # "connected" => ReconnectPending)
  /\ [](\A i \in 1..Len(timers) : timers[i] = 3000)
  /\ \A n \in 0..(AttemptsModulus - 1) :
       (/\ attempts = n
        /\ \/ timers # <<>>
           \/ \E s \in sockets : s.state = "failed")
         ~> (attempts # n)

\* a socket is connecting again after the one before it was closed
C19_ReconnectedAfterClose ==
  /\ connectionStatus = "disconnected"
  /\ attempts # 1
  /\ \E s \in sockets : s.state = "connecting"
  /\ timers = <<>>

\* C20: a call of sendMessage made while the status is not "connected" or no
\* socket handle is held returns at once: no conversation is created, no
\* message is stored or added to the in-memory list, nothing is sent and
\* the typed text stays in the input.
C20_SendWhileNotConnectedIsNoOp ==
  [][(/\ sending.pc \in {"idle", "returned"}
      /\ sending' # sending
      /\ connectionStatus # "connected" \/ wsConnection = NoSocket)
       => /\ sending'.pc = "returned"
          /\ UNCHANGED <<convs, msgs, resp, conversations, activeConversation,
                         currentMessage, sent, sockets, timers, connectionStatus,
                         wsConnection>>]_vars

\* sendMessage returned while text was typed, the socket had reported an
\* error, its handle was still held, and a conversation was shown
C20_ReturnedInErrorState ==
  /\ sending.pc = "returned"
  /\ connectionStatus = "error" /\ wsConnection # NoSocket
  /\ currentMessage = <<"H", "i">>
  /\ conversations # <<>>
  /\ sent # <<>>

\* the title the text of a create-conversation request is to give: the
\* trimmed text up to the cap, cut and marked beyond it, the default for none
TitleOfText(text) ==
  LET usable == Trim(text)
  IN  IF usable = <<>> THEN DefaultTitle
      ELSE IF Len(usable) <= TitleCap THEN usable
      ELSE SubSeq(usable, 1, TitleCap) \o <<".", ".", ".">>

\* C23: a create-conversation request of an authenticated caller that is
\* answered 200 has stored exactly one new conversation; the caller owns it
\* and its title is the trimmed title or first-message text when that has at
\* most 30 characters, its first 30 characters and "..." when it is longer,
\* and "New Conversation" when the text is absent, empty or blank, so the
\* stored title is never empty.
C23_CreatedTitleFromText ==
  [][(/\ resp' # resp
      /\ resp'.h \in {"createConversation", "createTitledConversation"}
      /\ resp'.status = 200)
       => \E c \in convs' \ convs :
            /\ convs' = convs \cup {c}
            /\ AuthenticatedAs(resp', c.user)
            /\ c.title = TitleOfText(resp'.req.text)
            /\ c.title # <<>>]_vars

\* no append is between its first step and its answer
NoAppendInFlight == \A p \in Procs : appends[p].pc \in {"idle", "answered"}

\* C24: whenever no append is in flight, the lastMessageAt of each
\* conversation is not earlier than the createdAt of any message stored in
\* it, however the steps of two or more concurrent appends to the same
\* conversation interleave.
C24_LastActivityCoversMessages ==
  NoAppendInFlight =>
    \A c \in convs : \A i \in 1..Len(msgs) :
      msgs[i].conversation = c.id => c.lastMessageAt >= msgs[i].createdAt

\* C25: an append answered with a status other than 200 has left no message
\* of its own in the store: the message and the update of lastMessageAt take
\* effect together or not at all, also when the store fails between the two
\* writes.
C25_FailedAppendAddsNothing ==
  \A p \in Procs :
    (appends[p].pc = "answered" /\ appends[p].status # 200) =>
      \A i \in 1..Len(msgs) : <<msgs[i]>> # appends[p].created

\* C26: a sign-up answered with a status other than 201 has created no
\* user, so the same sign-up can be sent again; also when the password was
\* hashed and the user written before signing the token fails.
C26_FailedSignUpCreatesNoUser ==
  [][(resp' # resp /\ resp'.h = "signup" /\ resp'.status # 201)
       => users' = users]_vars

\* the step is the delivery of the agent's reply to the i-th query
Replied(i) ==
  /\ Len(sent') = Len(sent)
  /\ sent[i].reply = NoReply
  /\ sent'[i].reply # NoReply

\* the in-memory list after one assistant turn is added to conversation id
WithAssistantTurn(id, content) ==
  [k \in 1..Len(conversations) |->
     IF conversations[k].id = id
       THEN [conversations[k] EXCEPT !.messages = Append(@, AssistantMessage(content))]
       ELSE conversations[k]]

\* C21: every frame with content that arrives while a conversation is
\* active, on the first socket or a reconnected one, adds exactly one
\* assistant turn to that conversation in the in-memory list and makes
\* exactly one request to store the assistant message (POST /api/messages,
\* role "assistant") in it.
C21_FrameGivesOneTurnAndOneSave ==
  [][\A i \in 1..Len(sent) :
       (/\ Replied(i)
        /\ sent'[i].reply[1].content # <<>>
        /\ activeConversation # NoConversation)
         => /\ conversations' =
                 WithAssistantTurn(activeConversation, sent'[i].reply[1].content)
            /\ assistantSaves' =
                 Append(assistantSaves,
                        [conversationId |-> activeConversation, role |-> "assistant",
                         content |-> sent'[i].reply[1].content])]_vars

\* the sockets that are open or connecting, of any component
LiveSockets == {s \in AllSockets : s.state \in {"connecting", "open"}}

\* the reconnect timers pending, of any component
PendingTimers == Len(timers) + Len(detached.timers)

\* C22: after any sequence of open, close, error, mount and unmount events
\* the client has at most one WebSocket open or connecting and at most one
\* reconnect timer pending, and never both.
C22_OneSocketOrOneTimer ==
  /\ Cardinality(LiveSockets) <= 1
  /\ PendingTimers <= 1
  /\ ~(LiveSockets # {} /\ PendingTimers > 0)

\* C27: the assistant turn for a query is added to the conversation the
\* query was sent from, also when another conversation was selected or
\* created between the send and the reply.
C27_ReplyGoesToOrigin ==
  [][\A i \in 1..Len(sent) :
       Replied(i) =>
         /\ \A k \in 1..Len(conversations) :
              conversations'[k] # conversations[k] => conversations[k].id = sent[i].conv
         /\ \A a \in 1..Len(assistantSaves') :
              a > Len(assistantSaves) => assistantSaves'[a].conversationId = sent[i].conv]_vars

\* C28: a query goes out on the WebSocket only when the POST /api/messages of
\* its user message was answered 200, so the store holds a user message with
\* the query's text in the conversation it was sent from.
C28_QuerySentAfterStored ==
  [][Len(sent') > Len(sent) =>
       /\ resp.h = "postMessage" /\ resp.status = 200
       /\ \E i \in 1..Len(msgs) :
            /\ msgs[i].conversation = sent'[Len(sent')].conv
            /\ msgs[i].role = "user"
            /\ msgs[i].content = sent'[Len(sent')].query]_vars

\* C29: the in-memory list never holds two entries with the same id, and
\* when sendMessage has created the persisted conversation for the first
\* message of a temporary one, the temporary entry is gone from the list.
C29_NoDuplicateNoLeftoverTemp ==
  [][/\ \A j, k \in 1..Len(conversations') :
          conversations'[j].id = conversations'[k].id => j = k
     /\ (/\ sending.pc = "creating" /\ sending'.pc = "saving"
         /\ IsTemporaryId(sending.conv))
          => \A k \in 1..Len(conversations') : conversations'[k].id # sending.conv]_vars

\* the step is the start of a call of searchGoogle by p
SearchStarted(p) == calls[p].pc = "idle" /\ calls'[p].pc # "idle"

\* C30: before resetTime the service sends at most 100 search requests; a
\* call made when 100 are counted fails with "Rate limit exceeded" and sends
\* nothing, however concurrent calls interleave; a query made again with the
\* same options is answered from the cache, and is neither sent nor counted.
C30_AtMostLimitRequestsPerWindow ==
  [][/\ issued' <= RateLimit
     /\ \A p \in Procs :
          SearchStarted(p) =>
            /\ RateLimited =>
                 /\ calls'[p].pc = "thrown"
                 /\ calls'[p].error = "Rate limit exceeded"
                 /\ issued' = issued
            /\ (~RateLimited /\ calls'[p].key \in DOMAIN cache) =>
                 /\ calls'[p].pc = "returned"
                 /\ calls'[p].results = cache[calls'[p].key]
                 /\ issued' = issued /\ rateLimiter' = rateLimiter]_vars

============================================================================
